---- MODULE Spec2Model ----
(***************************************************************************)
(* Model of pysmi's directory-backed writer (pysmi/writer/pyfile.py,       *)
(* PyFileWriter) and reader (pysmi/reader/localfile.py, FileReader).       *)
(*                                                                         *)
(* Text is a sequence of one-character strings, file content a sequence    *)
(* of byte values.  The destination directory of the writer holds one      *)
(* final artifact path (one logical name) and the temp files mkstemp       *)
(* creates.  Each writer process runs one putData call, a statement (or a  *)
(* group of statements touching only process-private files) per step, so   *)
(* that calls interleave at every system call on a shared path.            *)
(***************************************************************************)
EXTENDS Integers, Sequences, FiniteSets, TLC

VARIABLES
    wdir,        \* the destination directory self._path exists
    pyfile,      \* the file at the final path: Absent or a file
    tmp,         \* the temp files of the directory: name -> Absent or a file
    pyCompile,   \* PyFileWriter.pyCompile
    pc,          \* position of each putData call
    args,        \* (data, comments, dryRun) of each call
    tfile,       \* local tfile of each call: NoTmp or a temp name
    result,      \* how the call ended
    validation,  \* outcome of the call's py_compile pass
    renamed,     \* the call's os.rename(tfile, pyfile) succeeded
    unlinkedTmp, \* the call ran os.unlink(tfile)
    disturbed,   \* another call changed the final path after this call's rename
    loaded       \* what getData returned to the caller after the call

wvars == <<wdir, pyfile, tmp, pyCompile, pc, args, tfile, result, validation,
           renamed, unlinkedTmp, disturbed, loaded>>

VARIABLES
    fs,           \* the source tree: path -> node
    indexLines,   \* the lines of the file <root>/.index
    recursive,    \* FileReader._recursive
    ignoreErrors, \* AbstractReader.ignoreErrors
    useIndexFile, \* FileReader.useIndexFile
    indexLoaded,  \* FileReader._indexLoaded
    mibIndex,     \* FileReader._mibIndex, a set of <<key, value>>
    rpc,          \* position of the reader in getData / dataGenerator
    mibname,      \* argument of getData
    roots,        \* the list getSubdirs returned to the running operation
    ri,           \* index of the current search root in roots
    variants,     \* the list getMibVariants returned for the current root
    vi,           \* index of the current variant
    listing,      \* os.listdir of the current root (dataGenerator)
    li,           \* index of the current entry of listing
    fBound,       \* dataGenerator's local f has been assigned
    tried,        \* the <<root index, variant index>> pairs examined so far
    rres,         \* outcome of the operation
    found,        \* what getData returned
    yielded       \* what dataGenerator yielded so far

rvars == <<fs, indexLines, recursive, ignoreErrors, useIndexFile, indexLoaded,
           mibIndex, rpc, mibname, roots, ri, variants, vi, listing, li,
           fBound, tried, rres, found, yielded>>

vars == <<wvars, rvars>>

---------------------------------------------------------------------------
(* Bounds *)

\* size of the pool of names mkstemp draws from
NumTmpNames == 2

\* number of entries (files, subdirectories, others) in the source tree
MaxEntries == 3

---------------------------------------------------------------------------
(* Values *)

\* a path with no file, and a file holding bytes b written by call w
\* (0: before any call)
Absent == [present |-> FALSE, bytes |-> <<>>, by |-> 0]
File(b, w) == [present |-> TRUE, bytes |-> b, by |-> w]

None == "none"
NoTmp == 0
\* getData has not been called
NotLoaded == <<"-">>

Writers == {1, 2}
TmpNames == 1..NumTmpNames

\* "x" an ASCII token that compiles, "!" an ASCII token that is a syntax
\* error, "U" a non-ASCII character, "S" a lone surrogate
Texts == {<<"x", "U">>, <<"!">>, <<"S">>}
CommentSets == {<<>>, <<<<"c">>, <<"U">>>>}

\* content of an artifact found at the final path before any call
PreBytes == <<112>>
PreFile == File(PreBytes, 0)

---------------------------------------------------------------------------
(* pysmi.compat.encode / decode: UTF-8 *)

Encodable(s) == \A i \in 1..Len(s) : s[i] # "S"

EncodeChar(c) ==
    CASE c = "x" -> <<120>>
      [] c = "!" -> <<33>>
      [] c = "c" -> <<99>>
      [] c = "#" -> <<35>>
      [] c = " " -> <<32>>
      [] c = "\n" -> <<10>>
      [] c = "U" -> <<195, 169>>
      [] OTHER -> <<>>

RECURSIVE encode(_)
encode(s) == IF s = <<>> THEN <<>> ELSE EncodeChar(Head(s)) \o encode(Tail(s))

RECURSIVE decode(_)
decode(b) ==
    IF b = <<>> THEN <<>>
    ELSE IF Head(b) = 195 /\ Len(b) >= 2 /\ b[2] = 169
         THEN <<"U">> \o decode(Tail(Tail(b)))
    ELSE IF Head(b) = 120 THEN <<"x">> \o decode(Tail(b))
    ELSE IF Head(b) = 33 THEN <<"!">> \o decode(Tail(b))
    ELSE IF Head(b) = 99 THEN <<"c">> \o decode(Tail(b))
    ELSE IF Head(b) = 35 THEN <<"#">> \o decode(Tail(b))
    ELSE IF Head(b) = 32 THEN <<" ">> \o decode(Tail(b))
    ELSE IF Head(b) = 10 THEN <<"\n">> \o decode(Tail(b))
    ELSE <<"?">> \o decode(Tail(b))

---------------------------------------------------------------------------
(* putData, lines 67-68: the comment block *)

RECURSIVE CommentLines(_)
CommentLines(comments) ==
    IF comments = <<>> THEN <<>>
    ELSE <<"#", " ">> \o Head(comments) \o <<"\n">> \o CommentLines(Tail(comments))

FormatDataNoFrame(data, comments) ==
    IF comments # <<>> THEN CommentLines(comments) \o data ELSE data

FormatData(data, comments) ==
    IF comments # <<>>
    THEN <<"#", "\n">> \o CommentLines(comments) \o <<"#", "\n">> \o data
    ELSE data

\* the string a call writes
Data(w) == FormatData(args[w].data, args[w].comments)

\* py_compile.compile on the bytes of a file: "pass", or "expected" for the
\* SyntaxError / PyCompileError class
CompileOutcome(bytes) ==
    IF \E i \in 1..Len(bytes) : bytes[i] = 33 THEN "expected" ELSE "pass"

---------------------------------------------------------------------------
(* Initial state of the writer *)

NoArgs == [data |-> <<>>, comments |-> <<>>, dryRun |-> FALSE]

InitWriter ==
    /\ wdir \in BOOLEAN
    /\ pyfile \in (IF wdir THEN {Absent, PreFile} ELSE {Absent})
    /\ tmp = [n \in TmpNames |-> Absent]
    /\ pyCompile \in BOOLEAN
    /\ pc = [w \in Writers |-> "idle"]
    /\ args = [w \in Writers |-> NoArgs]
    /\ tfile = [w \in Writers |-> NoTmp]
    /\ result = [w \in Writers |-> None]
    /\ validation = [w \in Writers |-> None]
    /\ renamed = [w \in Writers |-> FALSE]
    /\ unlinkedTmp = [w \in Writers |-> FALSE]
    /\ disturbed = [w \in Writers |-> FALSE]
    /\ loaded = [w \in Writers |-> NotLoaded]

---------------------------------------------------------------------------
(* PyFileWriter.putData, one call per writer process *)

Return(w, r) ==
    /\ pc' = [pc EXCEPT ![w] = "ret"]
    /\ result' = [result EXCEPT ![w] = r]

\* every other call whose artifact was renamed into place sees the final
\* path changed under it
Disturb(w) == [v \in Writers |-> disturbed[v] \/ (v # w /\ renamed[v])]

\* lines 52-55: the call and the dry-run test
DryRunMkdirFirst(w, a) ==
    /\ wdir' = TRUE
    /\ Return(w, "ok")

DryRun(w, a) ==
    /\ wdir' = wdir
    /\ Return(w, "ok")

Call(w) ==
    /\ UNCHANGED rvars
    /\ pc[w] = "idle"
    /\ \E d \in Texts, c \in CommentSets, dry \in BOOLEAN :
         LET a == [data |-> d, comments |-> c, dryRun |-> dry] IN
         /\ args' = [args EXCEPT ![w] = a]
         /\ IF dry
            THEN DryRun(w, a)
            ELSE /\ pc' = [pc EXCEPT ![w] = "exists"]
                 /\ UNCHANGED <<wdir, result>>
    /\ UNCHANGED <<pyfile, tmp, pyCompile, tfile, validation, renamed,
                   unlinkedTmp, disturbed, loaded>>

\* line 57: os.path.exists(self._path)
Exists(w) ==
    /\ UNCHANGED rvars
    /\ pc[w] = "exists"
    /\ pc' = [pc EXCEPT ![w] = IF wdir THEN "mkstemp" ELSE "makedirs"]
    /\ UNCHANGED <<wdir, pyfile, tmp, pyCompile, args, tfile, result,
                   validation, renamed, unlinkedTmp, disturbed, loaded>>

\* lines 58-65: os.makedirs; OSError (the directory appeared meanwhile, or
\* the filesystem refuses) becomes PySmiWriterError
Makedirs(w) ==
    /\ UNCHANGED rvars
    /\ pc[w] = "makedirs"
    /\ \/ /\ ~wdir
          /\ wdir' = TRUE
          /\ pc' = [pc EXCEPT ![w] = "mkstemp"]
          /\ UNCHANGED result
       \/ /\ UNCHANGED wdir
          /\ Return(w, "PySmiWriterError")
    /\ UNCHANGED <<pyfile, tmp, pyCompile, args, tfile, validation, renamed,
                   unlinkedTmp, disturbed, loaded>>

\* line 76: tempfile.mkstemp(dir=self._path) creates, with O_EXCL, an empty
\* file under a name no file of the directory has, or raises OSError
Mkstemp(w) ==
    /\ UNCHANGED rvars
    /\ pc[w] = "mkstemp"
    /\ \/ /\ wdir
          /\ \E n \in TmpNames :
               /\ tmp[n] = Absent
               /\ tmp' = [tmp EXCEPT ![n] = File(<<>>, w)]
               /\ tfile' = [tfile EXCEPT ![w] = n]
          /\ pc' = [pc EXCEPT ![w] = "write"]
       \/ /\ pc' = [pc EXCEPT ![w] = "except"]
          /\ UNCHANGED <<tmp, tfile>>
    /\ UNCHANGED <<wdir, pyfile, pyCompile, args, result, validation, renamed,
                   unlinkedTmp, disturbed, loaded>>

\* lines 77-78: os.write(fd, encode(data)); os.close(fd).  encode raises
\* UnicodeEncodeError before anything is written; a failing write or close
\* leaves any prefix of the bytes in the temp file and raises OSError; a
\* write that does not raise has written all the bytes
WriteBytesFinal(w, b) ==
    /\ pyfile' = File(b, w)
    /\ tmp' = tmp

WriteBytes(w, b) ==
    /\ tmp' = [tmp EXCEPT ![tfile[w]] = File(b, w)]
    /\ pyfile' = pyfile

Write(w) ==
    /\ UNCHANGED rvars
    /\ pc[w] = "write"
    /\ IF ~Encodable(Data(w))
       THEN /\ pc' = [pc EXCEPT ![w] = "except"]
            /\ UNCHANGED <<tmp, pyfile>>
       ELSE LET bytes == encode(Data(w)) IN
            \/ /\ WriteBytes(w, bytes)
               /\ pc' = [pc EXCEPT ![w] = "rename"]
            \/ /\ \E k \in 0..Len(bytes) :
                    WriteBytes(w, SubSeq(bytes, 1, k))
               /\ pc' = [pc EXCEPT ![w] = "except"]
    /\ UNCHANGED <<wdir, pyCompile, args, tfile, result, validation,
                   renamed, unlinkedTmp, disturbed, loaded>>

\* line 79: os.rename(tfile, pyfile), atomic, or OSError with nothing moved
RenameOnto(w) ==
    /\ pyfile' = tmp[tfile[w]]
    /\ tmp' = [tmp EXCEPT ![tfile[w]] = Absent]

Rename(w) ==
    /\ UNCHANGED rvars
    /\ pc[w] = "rename"
    /\ \/ /\ RenameOnto(w)
          /\ renamed' = [renamed EXCEPT ![w] = TRUE]
          /\ disturbed' = Disturb(w)
          /\ IF pyCompile
             THEN pc' = [pc EXCEPT ![w] = "compile"] /\ UNCHANGED result
             ELSE Return(w, "ok")
       \/ /\ pc' = [pc EXCEPT ![w] = "except"]
          /\ UNCHANGED <<pyfile, tmp, renamed, disturbed, result>>
    /\ UNCHANGED <<wdir, pyCompile, args, tfile, validation, unlinkedTmp,
                   loaded>>

\* lines 81-88: the handler of OSError / UnicodeEncodeError; the unlink of
\* the call's own temp file, which no other call touches, succeeds
CleanupLeavesTemp(w) ==
    /\ tmp' = tmp
    /\ unlinkedTmp' = unlinkedTmp

Cleanup(w) ==
    IF tfile[w] # NoTmp /\ tmp[tfile[w]] # Absent
    THEN /\ tmp' = [tmp EXCEPT ![tfile[w]] = Absent]
         /\ unlinkedTmp' = [unlinkedTmp EXCEPT ![w] = TRUE]
    ELSE UNCHANGED <<tmp, unlinkedTmp>>

Except(w) ==
    /\ UNCHANGED rvars
    /\ pc[w] = "except"
    /\ Cleanup(w)
    /\ Return(w, "PySmiWriterError")
    /\ UNCHANGED <<wdir, pyfile, pyCompile, args, tfile, validation, renamed,
                   disturbed, loaded>>

\* lines 92-101: py_compile.compile(pyfile, doraise=True) reads whatever is
\* at the final path now.  SyntaxError / PyCompileError are passed over; any
\* other exception (the file is gone, the byte-code cannot be written, ...)
\* goes to the cleanup of lines 102-109
ValidationKeptAlways(v) == TRUE

ValidationKept(v) == v \in {"pass", "expected"}

Compile(w) ==
    /\ UNCHANGED rvars
    /\ pc[w] = "compile"
    /\ \E v \in (IF pyfile = Absent THEN {"other"}
                 ELSE {CompileOutcome(pyfile.bytes), "other"}) :
         /\ validation' = [validation EXCEPT ![w] = v]
         /\ IF ValidationKept(v)
            THEN Return(w, "ok")
            ELSE pc' = [pc EXCEPT ![w] = "access"] /\ UNCHANGED result
    /\ UNCHANGED <<wdir, pyfile, tmp, pyCompile, args, tfile, renamed,
                   unlinkedTmp, disturbed, loaded>>

\* line 102: os.access(pyfile, os.F_OK)
AccessKeepsArtifact(w) ==
    /\ UNCHANGED rvars
    /\ pc[w] = "access"
    /\ Return(w, "PySmiWriterError")
    /\ UNCHANGED <<wdir, pyfile, tmp, pyCompile, args, tfile, validation,
                   renamed, unlinkedTmp, disturbed, loaded>>

Access(w) ==
    /\ UNCHANGED rvars
    /\ pc[w] = "access"
    /\ IF pyfile # Absent
       THEN pc' = [pc EXCEPT ![w] = "unlink"] /\ UNCHANGED result
       ELSE Return(w, "PySmiWriterError")
    /\ UNCHANGED <<wdir, pyfile, tmp, pyCompile, args, tfile, validation,
                   renamed, unlinkedTmp, disturbed, loaded>>

\* lines 103-109: os.unlink(pyfile) removes whatever is at the final path;
\* if the path is gone by now its OSError leaves putData as it is
Unlink(w) ==
    /\ UNCHANGED rvars
    /\ pc[w] = "unlink"
    /\ IF pyfile # Absent
       THEN /\ pyfile' = Absent
            /\ disturbed' = Disturb(w)
            /\ Return(w, "PySmiWriterError")
       ELSE /\ Return(w, "OSError")
            /\ UNCHANGED <<pyfile, disturbed>>
    /\ UNCHANGED <<wdir, tmp, pyCompile, args, tfile, validation, renamed,
                   unlinkedTmp, loaded>>

\* lines 113-114: getData, called by the caller once putData has returned
getData(filename) == <<>>

GetData(w) ==
    /\ UNCHANGED rvars
    /\ pc[w] = "ret"
    /\ loaded' = [loaded EXCEPT ![w] = getData("mod")]
    /\ pc' = [pc EXCEPT ![w] = "end"]
    /\ UNCHANGED <<wdir, pyfile, tmp, pyCompile, args, tfile, result,
                   validation, renamed, unlinkedTmp, disturbed>>

NextWriter ==
    \E w \in Writers :
       \/ Call(w) \/ Exists(w) \/ Makedirs(w) \/ Mkstemp(w) \/ Write(w)
       \/ Rename(w) \/ Except(w) \/ Compile(w) \/ Access(w) \/ Unlink(w)
       \/ GetData(w)


---------------------------------------------------------------------------
(* The source tree of the reader *)

\* file names are sequences of characters; a path is the sequence of names
\* below the reader's root, so that os.path.join(path, name) appends
join(path, name) == Append(path, name)

Root == <<>>
NameM == <<"m">>
NameMTxt == <<"m", ".", "txt">>
NameF == <<"f">>
NameA == <<"a">>
indexFile == <<".", "index">>

\* AbstractReader.maxMibSize, scaled down
maxMibSize == 6

FileNames == {NameM, NameMTxt, NameF}
Entries == {<<NameA>>, <<indexFile>>}
             \cup {<<n>> : n \in FileNames}
             \cup {<<NameA, n>> : n \in FileNames}

\* order in which os.listdir reports the names of a directory
ListOrder == <<NameF, indexFile, NameM, NameA, NameMTxt>>

NoNode == [kind |-> "none", size |-> 0, ok |-> FALSE]
\* regular files: readable ones of the sizes around the cap, and one that
\* open() refuses; a non-regular entry (socket, fifo); directories that
\* os.listdir lists or refuses
FileNodes == {[kind |-> "file", size |-> n, ok |-> TRUE] :
                 n \in {maxMibSize - 1, maxMibSize, maxMibSize + 1}}
             \cup {[kind |-> "file", size |-> 1, ok |-> FALSE],
                   [kind |-> "other", size |-> 0, ok |-> FALSE]}
DirNodes == {[kind |-> "dir", size |-> 0, ok |-> b] : b \in BOOLEAN}

\* the index files tried: a space, a tab and two spaces as separator, and
\* a two-line file
IndexFiles ==
    { << <<"m", " ", "f", "\n">> >>,
      << <<"m", "\t", "f", "\n">> >>,
      << <<"n", " ", "m", "\n">>, <<"m", " ", " ", "f", "\n">> >> }

Node(p) == IF p \in DOMAIN fs THEN fs[p] ELSE NoNode

exists(p) == Node(p).kind # "none"
isfile(p) == Node(p).kind = "file"
isdir(p) == Node(p).kind = "dir"

\* the bytes of a regular file of the tree
Content(p) == [i \in 1..Node(p).size |-> 120]

\* fp.read(n)
read(p, n) == SubSeq(Content(p), 1, IF Node(p).size < n THEN Node(p).size ELSE n)

\* os.listdir(path): the names present in a directory
listdir(path) == SelectSeq(ListOrder, LAMBDA n : exists(join(path, n)))

\* os.listdir raises OSError
ListFails(path) == ~(isdir(path) /\ Node(path).ok)

---------------------------------------------------------------------------
(* FileReader.getSubdirs, lines 43-64 *)

RECURSIVE ConcatAll(_)
ConcatAll(ss) == IF ss = <<>> THEN <<>> ELSE Head(ss) \o ConcatAll(Tail(ss))

RECURSIVE getSubdirs(_, _, _)
getSubdirs(path, rec, ign) ==
    IF ~rec THEN [dirs |-> <<path>>, raised |-> FALSE]
    ELSE IF ListFails(path)
         THEN IF ign THEN [dirs |-> <<path>>, raised |-> FALSE]
              ELSE [dirs |-> <<>>, raised |-> TRUE]
    ELSE LET subdirs == listdir(path)
             sub(i) == LET d == join(path, subdirs[i]) IN
                       IF isdir(d) THEN getSubdirs(d, rec, TRUE).dirs ELSE <<>>
         IN [dirs |-> <<path>> \o ConcatAll([i \in 1..Len(subdirs) |-> sub(i)]),
             raised |-> FALSE]

---------------------------------------------------------------------------
(* FileReader.loadIndex, lines 66-83 *)

IsSpace(c) == c \in {" ", "\t", "\n"}

RECURSIVE lstrip(_)
lstrip(s) == IF s # <<>> /\ IsSpace(Head(s)) THEN lstrip(Tail(s)) ELSE s

RECURSIVE rstrip(_)
rstrip(s) ==
    IF s # <<>> /\ IsSpace(s[Len(s)]) THEN rstrip(SubSeq(s, 1, Len(s) - 1)) ELSE s

strip(s) == rstrip(lstrip(s))

\* line.partition(sep): head, and tail after the first sep; the whole line
\* and an empty tail when sep does not occur
partition(line, sep) ==
    IF \E i \in 1..Len(line) : line[i] = sep
    THEN LET i == CHOOSE i \in 1..Len(line) :
                     line[i] = sep /\ \A j \in 1..(i - 1) : line[j] # sep
         IN <<SubSeq(line, 1, i - 1), SubSeq(line, i + 1, Len(line))>>
    ELSE <<line, <<>>>>

\* mibIndex[key] = value
Put(idx, key, value) == {e \in idx : e[1] # key} \cup {<<key, value>>}

RECURSIVE ParseLines(_, _)
ParseLines(lines, idx) ==
    IF lines = <<>> THEN idx
    ELSE LET kv == partition(Head(lines), " ")
         IN ParseLines(Tail(lines), Put(idx, strip(kv[1]), strip(kv[2])))

loadIndex(path) ==
    IF exists(path)
    THEN IF isfile(path) /\ Node(path).ok THEN ParseLines(indexLines, {}) ELSE {}
    ELSE {}

InIndex(idx, name) == \E e \in idx : e[1] = name
Lookup(idx, name) == (CHOOSE e \in idx : e[1] = name)[2]

---------------------------------------------------------------------------
(* getMibVariants *)

\* AbstractReader.getMibVariants: the name itself, then the name with an
\* extension
baseMibVariants(name) == <<<<name, name>>, <<name, name \o <<".", "txt">>>>>>

\* FileReader.getMibVariants, lines 85-98, on the index as loaded
getMibVariantsFallbackFirst(idx, name) == baseMibVariants(name)

getMibVariantsThenFallback(idx, name) ==
    IF useIndexFile /\ InIndex(idx, name)
    THEN <<<<name, Lookup(idx, name)>>>> \o baseMibVariants(name)
    ELSE baseMibVariants(name)

getMibVariants(idx, name) ==
    IF useIndexFile /\ InIndex(idx, name)
    THEN <<<<name, Lookup(idx, name)>>>>
    ELSE baseMibVariants(name)

\* the index after the lazy load of lines 87-91
IndexNowReloads == IF useIndexFile
                   THEN loadIndex(join(Root, indexFile)) ELSE mibIndex

IndexNow == IF useIndexFile /\ ~indexLoaded
            THEN loadIndex(join(Root, indexFile)) ELSE mibIndex

---------------------------------------------------------------------------
(* Initial state of the reader *)

\* the trees of at most MaxEntries entries; an entry of a subdirectory needs
\* the subdirectory
Shapes ==
    {S \in SUBSET Entries :
        /\ Cardinality(S) <= MaxEntries
        /\ \A p \in S : Len(p) = 2 => <<p[1]>> \in S}

NodesAt(p) == IF p = <<NameA>> THEN DirNodes
              ELSE IF p = <<indexFile>>
                   THEN {n \in FileNodes : n.kind = "file" /\ n.size <= maxMibSize - 1}
              ELSE FileNodes

NoFound == [path |-> <<>>, file |-> <<>>, name |-> <<>>, data |-> <<>>]

ReaderIdle ==
    /\ indexLoaded = FALSE
    /\ mibIndex = {}
    /\ rpc = "idle"
    /\ mibname = <<>>
    /\ roots = <<>>
    /\ ri = 0
    /\ variants = <<>>
    /\ vi = 0
    /\ listing = <<>>
    /\ li = 0
    /\ fBound = FALSE
    /\ tried = <<>>
    /\ rres = None
    /\ found = NoFound
    /\ yielded = <<>>

InitReader ==
    /\ \E S \in Shapes, rootOk \in BOOLEAN :
         \E t \in [S -> FileNodes \cup DirNodes] :
            /\ \A p \in S : t[p] \in NodesAt(p)
            /\ fs = [p \in Entries \cup {Root} |->
                        IF p = Root THEN [kind |-> "dir", size |-> 0, ok |-> rootOk]
                        ELSE IF p \in S THEN t[p] ELSE NoNode]
    /\ indexLines \in (IF fs[<<indexFile>>].kind = "file" /\ fs[<<indexFile>>].ok
                       THEN IndexFiles ELSE {<<>>})
    /\ recursive \in BOOLEAN
    /\ ignoreErrors \in BOOLEAN
    /\ useIndexFile \in BOOLEAN
    /\ ReaderIdle

WriterOff ==
    /\ wdir = FALSE
    /\ pyfile = Absent
    /\ tmp = [n \in TmpNames |-> Absent]
    /\ pyCompile = TRUE
    /\ pc = [w \in Writers |-> "end"]
    /\ args = [w \in Writers |-> NoArgs]
    /\ tfile = [w \in Writers |-> NoTmp]
    /\ result = [w \in Writers |-> None]
    /\ validation = [w \in Writers |-> None]
    /\ renamed = [w \in Writers |-> FALSE]
    /\ unlinkedTmp = [w \in Writers |-> FALSE]
    /\ disturbed = [w \in Writers |-> FALSE]
    /\ loaded = [w \in Writers |-> NotLoaded]

ReaderOff ==
    /\ fs = [p \in {Root} |-> NoNode]
    /\ indexLines = <<>>
    /\ recursive = TRUE
    /\ ignoreErrors = TRUE
    /\ useIndexFile = TRUE
    /\ ReaderIdle

---------------------------------------------------------------------------
(* FileReader.getData, lines 100-138 *)

MibNames == {NameM, <<"n">>}

\* lines 120-125: open, read(maxMibSize), and the test for the cap
ReadableUpToCap(f) == Node(f).ok /\ Len(read(f, maxMibSize + 1)) <= maxMibSize

Readable(f) == Node(f).ok /\ Len(read(f, maxMibSize)) # maxMibSize

\* the next (root, variant) pair of the nested loops of lines 104-106
NextPairRootFirst(r, v, nroots, nvars) ==
    IF r < nroots THEN <<r + 1, v>>
    ELSE IF v < nvars THEN <<1, v + 1>> ELSE <<nroots + 1, 1>>

NextPair(r, v, nroots, nvars) ==
    IF v < nvars THEN <<r, v + 1>> ELSE <<r + 1, 1>>

\* line 104 left after the last search root: line 138 is reached
ExhaustedEarly(r, nroots) == r >= nroots

Exhausted(r, nroots) == r > nroots

\* line 104: the call of getSubdirs
FetchCallWalks ==
    /\ rpc = "idle"
    /\ \E name \in MibNames :
         LET r == getSubdirs(Root, TRUE, ignoreErrors) IN
         /\ mibname' = name
         /\ IF r.raised
            THEN /\ rres' = "PySmiError"
                 /\ rpc' = "f_done"
                 /\ UNCHANGED <<roots, ri, vi>>
            ELSE /\ roots' = r.dirs
                 /\ ri' = 1
                 /\ vi' = 1
                 /\ rpc' = "f_variants"
                 /\ UNCHANGED rres
    /\ UNCHANGED wvars
    /\ UNCHANGED <<fs, indexLines, recursive, ignoreErrors, useIndexFile,
                   indexLoaded, mibIndex, variants, listing, li, fBound,
                   tried, found, yielded>>

FetchCall ==
    /\ rpc = "idle"
    /\ \E name \in MibNames :
         LET r == getSubdirs(Root, recursive, ignoreErrors) IN
         /\ mibname' = name
         /\ IF r.raised
            THEN /\ rres' = "PySmiError"
                 /\ rpc' = "f_done"
                 /\ UNCHANGED <<roots, ri, vi>>
            ELSE /\ roots' = r.dirs
                 /\ ri' = 1
                 /\ vi' = 1
                 /\ rpc' = "f_variants"
                 /\ UNCHANGED rres
    /\ UNCHANGED wvars
    /\ UNCHANGED <<fs, indexLines, recursive, ignoreErrors, useIndexFile,
                   indexLoaded, mibIndex, variants, listing, li, fBound,
                   tried, found, yielded>>

\* line 106 with lines 85-98: getMibVariants for the current root, loading
\* the index on first use; line 138 when the roots are exhausted
Variants ==
    /\ rpc = "f_variants"
    /\ IF Exhausted(ri, Len(roots))
       THEN /\ rres' = "PySmiReaderFileNotFoundError"
            /\ rpc' = "f_done"
            /\ UNCHANGED <<indexLoaded, mibIndex, variants>>
       ELSE /\ mibIndex' = IndexNow
            /\ indexLoaded' = (indexLoaded \/ useIndexFile)
            /\ variants' = getMibVariants(IndexNow, mibname)
            /\ rpc' = "f_try"
            /\ UNCHANGED rres
    /\ UNCHANGED wvars
    /\ UNCHANGED <<fs, indexLines, recursive, ignoreErrors, useIndexFile,
                   mibname, roots, ri, vi, listing, li, fBound, tried, found,
                   yielded>>

\* lines 108-136: one candidate
Try ==
    /\ rpc = "f_try"
    /\ LET mibalias == variants[vi][1]
           mibfile == variants[vi][2]
           f == join(roots[ri], mibfile)
           nxt == NextPair(ri, vi, Len(roots), Len(variants))
       IN /\ tried' = Append(tried, <<ri, vi>>)
          /\ IF exists(f) /\ isfile(f)
             THEN /\ rpc' = "f_done"
                  /\ UNCHANGED <<ri, vi>>
                  /\ IF Readable(f)
                     THEN /\ found' = [path |-> f, file |-> mibfile,
                                       name |-> mibalias,
                                       data |-> decode(read(f, maxMibSize))]
                          /\ rres' = "found"
                     ELSE /\ rres' = IF ~ignoreErrors THEN "PySmiError"
                                     ELSE "PySmiReaderFileNotModifiedError"
                          /\ UNCHANGED found
             ELSE /\ ri' = nxt[1]
                  /\ vi' = nxt[2]
                  /\ rpc' = IF nxt[1] # ri THEN "f_variants" ELSE "f_try"
                  /\ UNCHANGED <<rres, found>>
    /\ UNCHANGED wvars
    /\ UNCHANGED <<fs, indexLines, recursive, ignoreErrors, useIndexFile,
                   indexLoaded, mibIndex, mibname, roots, variants, listing,
                   li, fBound, yielded>>

---------------------------------------------------------------------------
(* FileReader.dataGenerator, lines 140-178 *)

\* os.path.splitext(name)[0]: the name up to its last dot, unless only dots
\* precede that dot
splitext(name) ==
    LET dots == {i \in 1..Len(name) : name[i] = "."} IN
    IF dots = {} THEN name
    ELSE LET d == CHOOSE i \in dots : \A j \in dots : j <= i IN
         IF \E j \in 1..(d - 1) : name[j] # "." THEN SubSeq(name, 1, d - 1)
         ELSE name

\* line 144: the call of getSubdirs
EnumCall ==
    /\ rpc = "idle"
    /\ LET r == getSubdirs(Root, recursive, ignoreErrors) IN
       IF r.raised
       THEN /\ rres' = "PySmiError"
            /\ rpc' = "e_done"
            /\ UNCHANGED <<roots, ri>>
       ELSE /\ roots' = r.dirs
            /\ ri' = 1
            /\ rpc' = "e_list"
            /\ UNCHANGED rres
    /\ UNCHANGED wvars
    /\ UNCHANGED <<fs, indexLines, recursive, ignoreErrors, useIndexFile,
                   indexLoaded, mibIndex, mibname, variants, vi, listing, li,
                   fBound, tried, found, yielded>>

\* lines 173-178: the handler around the loop over one directory; the
\* message of line 178 reads the local f
EnumExcept ==
    IF ~ignoreErrors
    THEN /\ rres' = IF fBound' THEN "PySmiError" ELSE "UnboundLocalError"
         /\ rpc' = "e_done"
         /\ UNCHANGED ri
    ELSE /\ ri' = ri + 1
         /\ rpc' = "e_list"
         /\ UNCHANGED rres

\* lines 144-147: the next search root and its os.listdir; the generator
\* ends after the last root
EnumList ==
    /\ rpc = "e_list"
    /\ UNCHANGED fBound
    /\ IF ri > Len(roots)
       THEN /\ rres' = "ok"
            /\ rpc' = "e_done"
            /\ UNCHANGED <<ri, listing, li>>
       ELSE IF ListFails(roots[ri])
            THEN EnumExcept /\ UNCHANGED <<listing, li>>
            ELSE /\ listing' = listdir(roots[ri])
                 /\ li' = 1
                 /\ rpc' = "e_file"
                 /\ UNCHANGED <<ri, rres>>
    /\ UNCHANGED wvars
    /\ UNCHANGED <<fs, indexLines, recursive, ignoreErrors, useIndexFile,
                   indexLoaded, mibIndex, mibname, roots, variants, vi,
                   tried, found, yielded>>

\* lines 147-171: one entry of the listing
EnumFile ==
    /\ rpc = "e_file"
    /\ IF li > Len(listing)
       THEN /\ ri' = ri + 1
            /\ rpc' = "e_list"
            /\ UNCHANGED <<li, fBound, rres, yielded>>
       ELSE LET mibfile == listing[li]
                f == join(roots[ri], mibfile)
            IN /\ fBound' = TRUE
               /\ IF ~isfile(f)
                  THEN /\ li' = li + 1
                       /\ UNCHANGED <<ri, rpc, rres, yielded>>
                  ELSE IF Readable(f)
                       THEN /\ yielded' = Append(yielded,
                                 [path |-> f, file |-> mibfile,
                                  name |-> splitext(mibfile),
                                  data |-> decode(read(f, maxMibSize))])
                            /\ li' = li + 1
                            /\ UNCHANGED <<ri, rpc, rres>>
                       ELSE EnumExcept /\ UNCHANGED <<li, yielded>>
    /\ UNCHANGED wvars
    /\ UNCHANGED <<fs, indexLines, recursive, ignoreErrors, useIndexFile,
                   indexLoaded, mibIndex, mibname, roots, variants, vi,
                   listing, tried, found>>

\* the caller is done with the result; the reader instance, with its
\* index, stays
Finish ==
    /\ rpc \in {"f_done", "e_done"}
    /\ rpc' = "idle"
    /\ mibname' = <<>>
    /\ roots' = <<>>
    /\ ri' = 0
    /\ variants' = <<>>
    /\ vi' = 0
    /\ listing' = <<>>
    /\ li' = 0
    /\ fBound' = FALSE
    /\ tried' = <<>>
    /\ rres' = None
    /\ found' = NoFound
    /\ yielded' = <<>>
    /\ UNCHANGED wvars
    /\ UNCHANGED <<fs, indexLines, recursive, ignoreErrors, useIndexFile,
                   indexLoaded, mibIndex>>

\* the index file is replaced, removed or made unreadable by another
\* program between two calls of the reader
IndexStates ==
    {<<NoNode, <<>>>>, <<[kind |-> "file", size |-> 1, ok |-> FALSE], <<>>>>}
       \cup {<<[kind |-> "file", size |-> maxMibSize - 1, ok |-> TRUE], l>> :
                l \in IndexFiles}

RewriteIndex ==
    /\ rpc = "idle"
    /\ \E s \in IndexStates :
         /\ <<fs[<<indexFile>>], indexLines>> # s
         /\ fs' = [fs EXCEPT ![<<indexFile>>] = s[1]]
         /\ indexLines' = s[2]
    /\ UNCHANGED wvars
    /\ UNCHANGED <<recursive, ignoreErrors, useIndexFile, indexLoaded,
                   mibIndex, rpc, mibname, roots, ri, variants, vi, listing,
                   li, fBound, tried, rres, found, yielded>>

NextReader == FetchCall \/ Variants \/ Try \/ EnumCall \/ EnumList
                 \/ EnumFile \/ Finish

---------------------------------------------------------------------------
(* Specifications *)

\* the writer alone, the reader unused
Init == InitWriter /\ ReaderOff

Spec == Init /\ [][NextWriter]_vars

\* the reader alone, the writer unused
InitR == InitReader /\ WriterOff

SpecReader == InitR /\ [][NextReader]_vars

\* the reader fetching from a single directory whose index file changes
\* between the calls
InitIndex ==
    /\ WriterOff
    /\ \E s \in IndexStates, files \in SUBSET {<<NameM>>, <<NameF>>} :
         /\ fs = [p \in Entries \cup {Root} |->
                     IF p = Root THEN [kind |-> "dir", size |-> 0, ok |-> TRUE]
                     ELSE IF p = <<indexFile>> THEN s[1]
                     ELSE IF p \in files
                          THEN [kind |-> "file", size |-> maxMibSize - 1, ok |-> TRUE]
                     ELSE NoNode]
         /\ indexLines = s[2]
    /\ recursive = FALSE
    /\ ignoreErrors \in BOOLEAN
    /\ useIndexFile \in BOOLEAN
    /\ ReaderIdle

NextIndex == FetchCall \/ Variants \/ Try \/ Finish \/ RewriteIndex

SpecIndex == InitIndex /\ [][NextIndex]_vars

---------------------------------------------------------------------------
(* Claims about the writer *)

Returned(w) == pc[w] \in {"ret", "end"}
Stored(w) == Returned(w) /\ result[w] = "ok" /\ ~args[w].dryRun

\* the comment block the documentation of store describes: a frame line,
\* one prefixed line per comment, a frame line
C1_Block(comments) ==
    IF comments = <<>> THEN <<>>
    ELSE <<"#", "\n">> \o CommentLines(comments) \o <<"#", "\n">>

C1_Text(w) == C1_Block(args[w].comments) \o args[w].data

C2_Complete ==
    \/ pyfile = Absent
    \/ pyfile = PreFile
    \/ \E w \in Writers :
          pc[w] # "idle" /\ ~args[w].dryRun /\ pyfile = File(encode(Data(w)), w)

C2_OnlyRename ==
    pyfile' # pyfile /\ pyfile'.present
       => \E w \in Writers : pc[w] = "rename" /\ renamed'[w] /\ ~renamed[w]

C2_NoPartialArtifact == [](C2_Complete) /\ [][C2_OnlyRename]_vars

C2_Witness ==
    \E w, v \in Writers :
       /\ w # v /\ pyfile.present /\ pyfile.by = w
       /\ pc[v] = "except" /\ tfile[v] # NoTmp
       /\ tmp[tfile[v]].present
       /\ Len(tmp[tfile[v]].bytes) \in 1..(Len(encode(Data(v))) - 1)

\* C3: the handler of a failed temp-file creation, write or rename ends the
\* call with the writer error, leaves no temp file of the call in the
\* directory and leaves the final path as it was, which the call has not
\* changed before; no call both renames and unlinks its temp file.
C3_Handler ==
    \A w \in Writers :
       pc[w] = "except" /\ pc'[w] # "except"
          => /\ pc'[w] = "ret" /\ result'[w] = "PySmiWriterError"
             /\ \A n \in TmpNames : ~(tmp'[n].present /\ tmp'[n].by = w)
             /\ pyfile' = pyfile
             /\ ~renamed[w] /\ ~(pyfile.present /\ pyfile.by = w)

C3_NeverBoth == \A w \in Writers : ~(renamed[w] /\ unlinkedTmp[w])

C3_FailureCleanup == [](C3_NeverBoth) /\ [][C3_Handler]_vars

C3_Witness ==
    \E w \in Writers :
       /\ pc[w] = "ret" /\ result[w] = "PySmiWriterError" /\ unlinkedTmp[w]
       /\ pyfile = PreFile
       /\ \A n \in TmpNames : ~tmp[n].present

\* C4 as stated: with validation enabled, an artifact written by a call that
\* has returned is at the final path only if the call's validation passed.
C4_OnlyValidated ==
    \A w \in Writers :
       pyCompile /\ Returned(w) /\ pyfile.present /\ pyfile.by = w
          => validation[w] = "pass"

\* C4 amended: with validation enabled, an artifact written by a call that
\* has returned is at the final path only if the call's validation passed or
\* failed with the tolerated class (SyntaxError / PyCompileError).
C4_OnlyValidatedOrTolerated ==
    \A w \in Writers :
       pyCompile /\ Returned(w) /\ pyfile.present /\ pyfile.by = w
          => validation[w] \in {"pass", "expected"}

C4_Witness ==
    \E w \in Writers :
       /\ pyCompile /\ Returned(w) /\ pyfile.present /\ pyfile.by = w
       /\ validation[w] = "expected" /\ result[w] = "ok"

\* C5: a dry-run store returns success in its one step, changing neither
\* the directory, the final path nor any temp file, also when the root is
\* missing, and the load after it returns empty.
C5_DryStep ==
    \A w \in Writers :
       pc[w] = "idle" /\ pc'[w] # "idle" /\ args'[w].dryRun
          => /\ pc'[w] = "ret" /\ result'[w] = "ok"
             /\ wdir' = wdir /\ pyfile' = pyfile /\ tmp' = tmp

C5_DryLoad ==
    \A w \in Writers : pc[w] = "end" /\ args[w].dryRun => loaded[w] = <<>>

C5_DryRunNoEffect == [](C5_DryLoad) /\ [][C5_DryStep]_vars

C5_Witness ==
    \E w \in Writers :
       /\ pc[w] = "end" /\ args[w].dryRun /\ result[w] = "ok"
       /\ ~wdir /\ ~pyfile.present /\ loaded[w] = <<>>

---------------------------------------------------------------------------
(* Claims about the reader *)

\* the candidate path of the pair (root r, variant v) of the running fetch
Cand(r, v) == join(roots[r], variants[v][2])

\* a readable regular file under the size cap
Qualifies(p) == isfile(p) /\ Node(p).ok /\ Node(p).size < maxMibSize

Pairs == (1..Len(roots)) \X (1..Len(variants))

\* position of a pair in the nested order, roots outside, variants inside
Position(pr) == (pr[1] - 1) * Len(variants) + pr[2]

LastTried == tried[Len(tried)]

\* C6: the pairs are examined in the nested order, roots outside and
\* variants inside, none skipped; the pair fetch returns is the first one
\* in that order that names a readable regular file under the cap.
C6_FirstMatchWins ==
    rpc \in {"f_variants", "f_try", "f_done"} =>
       /\ \A k \in 1..Len(tried) : tried[k] \in Pairs /\ Position(tried[k]) = k
       /\ rres = "found" =>
             /\ found.path = Cand(LastTried[1], LastTried[2])
             /\ found.file = variants[LastTried[2]][2]
             /\ Qualifies(found.path)
             /\ \A pr \in Pairs :
                   Position(pr) < Position(LastTried) => ~Qualifies(Cand(pr[1], pr[2]))

C6_Witness ==
    /\ rpc = "f_done" /\ rres = "found"
    /\ LastTried = <<1, 2>> /\ Len(roots) = 2
    /\ Qualifies(Cand(2, 1))

\* C7: when the read of an existing candidate fails, a reader that ignores
\* errors goes on to the next pair, so that fetch returns a readable
\* candidate whenever one exists; a reader that does not fails with the
\* filesystem-access error.
C7_SkipOrFail ==
    rpc = "f_done" /\ tried # <<>> =>
       /\ ignoreErrors /\ (\E pr \in Pairs : Qualifies(Cand(pr[1], pr[2])))
             => rres = "found"
       /\ ~ignoreErrors /\ isfile(Cand(LastTried[1], LastTried[2]))
                        /\ ~Qualifies(Cand(LastTried[1], LastTried[2]))
             => rres = "PySmiError"

\* C8: the candidate fetch ends on is rejected with an error when it has
\* maxMibSize bytes or more, and is returned with every one of its bytes
\* when it has maxMibSize - 1; nothing returned is cut short.
C8_SizeCap ==
    /\ rpc = "f_done" /\ tried # <<>> =>
          LET f == Cand(LastTried[1], LastTried[2]) IN
          isfile(f) /\ Node(f).ok =>
             /\ Node(f).size >= maxMibSize
                   => rres \in {"PySmiError", "PySmiReaderFileNotModifiedError"}
             /\ Node(f).size = maxMibSize - 1
                   => /\ rres = "found" /\ found.path = f
                      /\ Len(found.data) = maxMibSize - 1
    /\ rres = "found" => found.data = decode(Content(found.path))

C8_Witness ==
    /\ rpc = "f_done" /\ rres = "found"
    /\ Len(found.data) = maxMibSize - 1
    /\ Node(found.path).size = maxMibSize - 1

\* C9: once getMibVariants has run for a name the loaded index holds, the
\* variants are the single pair of the name and its indexed file; the
\* fallback variants appear only when the index is disabled or lacks the
\* name.
C9_IndexedVariant ==
    rpc = "f_try" =>
       /\ useIndexFile =>
             \A e \in mibIndex : e[1] = mibname => variants = <<<<mibname, e[2]>>>>
       /\ variants = baseMibVariants(mibname)
             => ~useIndexFile \/ ~(\E e \in mibIndex : e[1] = mibname)
       /\ useIndexFile => indexLoaded

C9_Witness ==
    /\ rpc = "f_try" /\ useIndexFile /\ mibname = NameM
    /\ <<NameM, NameF>> \in mibIndex
    /\ variants = <<<<NameM, NameF>>>>

\* C10: enumerate never yields an entry for the index file or for an entry
\* that is not a regular file, names every entry by the file's base name
\* without extension, and when it has ended it has yielded exactly one
\* entry for each readable regular file listed in a search root.
C10_EnumExact ==
    /\ \A k \in 1..Len(yielded) :
          /\ yielded[k].file # indexFile
          /\ isfile(yielded[k].path)
          /\ yielded[k].name = splitext(yielded[k].file)
    /\ rpc = "e_done" /\ rres = "ok" =>
          \A r \in 1..Len(roots) : \A n \in FileNames :
             ~ListFails(roots[r]) /\ Qualifies(join(roots[r], n)) =>
                Cardinality({k \in 1..Len(yielded) :
                                yielded[k].path = join(roots[r], n)}) = 1

---------------------------------------------------------------------------
(* Claims about concurrent store calls *)

\* the call holds a temp file it has created and not yet renamed or removed
LiveTemp(w) == tfile[w] # NoTmp /\ pc[w] \in {"write", "rename", "except"}

C11_Distinct ==
    \A w, v \in Writers :
       w # v /\ LiveTemp(w) /\ LiveTemp(v) => tfile[w] # tfile[v]

C11_LastRenameWins ==
    (\A w \in Writers : Returned(w) /\ ~args[w].dryRun) =>
       /\ \A n \in TmpNames : ~tmp[n].present
       /\ \A w \in Writers :
             renamed[w] /\ ~disturbed[w] => pyfile = File(encode(Data(w)), w)

\* a call fails because of the other when it fails in a step whose success
\* only the other call has made impossible: os.makedirs on a directory that
\* exists by now, mkstemp with no free name
C11_NoInducedFailure ==
    \A w \in Writers :
       /\ pc[w] = "makedirs" /\ pc'[w] = "ret" => ~wdir
       /\ pc[w] = "mkstemp" /\ pc'[w] = "except"
             => \E n \in TmpNames : ~tmp[n].present

\* C11: with validation disabled, two concurrent store calls on one name
\* hold distinct temp files, neither fails because of the other, and once
\* both have completed the final path holds the complete content of the
\* call that renamed last and no temp file is left.
C11_ConcurrentStores ==
    /\ [](~pyCompile => C11_Distinct /\ C11_LastRenameWins)
    /\ [][~pyCompile => C11_NoInducedFailure]_vars

\* C13: with validation enabled, a call whose rename succeeded and whose
\* artifact no other call has replaced or removed ends in one of two ways:
\* validation passed or failed with SyntaxError / PyCompileError, the call
\* returned success and its artifact is at the final path; or validation
\* failed otherwise, the final path is empty and the call raised the writer
\* error.
C13_ValidationOutcomes ==
    \A w \in Writers :
       pyCompile /\ Returned(w) /\ renamed[w] /\ ~disturbed[w] =>
          IF validation[w] \in {"pass", "expected"}
          THEN result[w] = "ok" /\ pyfile = File(encode(Data(w)), w)
          ELSE /\ validation[w] = "other"
               /\ result[w] = "PySmiWriterError"
               /\ ~pyfile.present

C13_Witness ==
    \E w \in Writers :
       /\ pyCompile /\ Returned(w) /\ renamed[w] /\ ~disturbed[w]
       /\ validation[w] = "other" /\ result[w] = "PySmiWriterError"
       /\ ~pyfile.present

(* Claims about the search roots *)

\* the root listing is refused and the Reader does not ignore errors: the
\* only case where getSubdirs returns no list
RootsRaised == recursive /\ ~ignoreErrors /\ ListFails(Root)

\* C12: whenever a fetch or an enumeration has its search roots, the roots
\* include the Reader's root directory (it is the first of them); with
\* recursive = FALSE the roots are exactly [root], and neither the fetch nor
\* the enumeration returns a file that lies in a subdirectory of the root.
C12_RootsIncludeRoot ==
    rpc # "idle" =>
       /\ IF RootsRaised
          THEN roots = <<>> /\ rres = "PySmiError"
          ELSE roots # <<>> /\ roots[1] = Root
       /\ ~recursive =>
             /\ roots = <<Root>>
             /\ found # NoFound => Len(found.path) = 1
             /\ \A i \in 1..Len(yielded) : Len(yielded[i].path) = 1

C12_Witness ==
    /\ ~recursive
    /\ rpc = "f_done"
    /\ rres = "PySmiReaderFileNotFoundError"
    /\ isdir(<<NameA>>)
    /\ Qualifies(<<NameA, mibname>>)

\* the directories of a recursive walk from the root
Walked == {Root} \cup (IF ~ListFails(Root) /\ isdir(<<NameA>>) THEN {<<NameA>>} ELSE {})

\* C14: with recursive = TRUE, when os.listdir fails on a directory of the
\* walk, the root or a nested subdirectory, getSubdirs returns its list
\* (the failure is swallowed, the failing directory still listed as a root
\* but contributing nothing below it) if the Reader ignores errors, and
\* raises PySmiError to the caller if it does not.
C14_ListingFailure ==
    /\ rpc # "idle"
    /\ recursive
    /\ \E d \in Walked : ListFails(d)
    => IF ignoreErrors
       THEN roots # <<>> /\ \A i \in 1..Len(roots) : roots[i] \in Walked
       ELSE roots = <<>> /\ rres = "PySmiError"

(* Claims about read failures during the enumeration *)

\* the regular files, other than the index file, that the enumeration
\* meets in its search roots, and those among them whose read fails
EnumFiles ==
    {join(roots[i], n) : i \in 1..Len(roots), n \in FileNames}
       \cap {p \in Entries : isfile(p) /\ ~ListFails(SubSeq(p, 1, Len(p) - 1))}

EnumReadFailures == {p \in EnumFiles : ~Readable(p)}

YieldedPaths == {yielded[i].path : i \in 1..Len(yielded)}

\* C15: an enumeration that met a read failure (open refused, or the file
\* at or over the size cap), when errors are ignored, ends normally having
\* yielded every other readable regular file of the same directory and of
\* every later search root, and not the failing file; when errors are not
\* ignored it raises PySmiError.
C15_ReadFailureSkipsOneFile ==
    rpc = "e_done" /\ EnumReadFailures # {} /\ (\A i \in 1..Len(roots) : ~ListFails(roots[i]))
    => IF ignoreErrors
       THEN /\ rres = "ok"
            /\ \A p \in EnumFiles : p \in YieldedPaths <=> p \notin EnumReadFailures
       ELSE rres = "PySmiError"

(* Claims about the index *)

\* C16: the index file is read only by the first getMibVariants call of an
\* instance with the index enabled: until then the instance holds no index,
\* and once loaded, as the parsed map or as the empty map of a missing or
\* unreadable file, the map never changes, whatever happens to the file;
\* every fetch resolves its variants from the map as first loaded.
C16_Step ==
    /\ indexLoaded => indexLoaded' /\ mibIndex' = mibIndex
    /\ ~indexLoaded /\ indexLoaded' =>
          /\ useIndexFile /\ rpc = "f_variants"
          /\ mibIndex' = loadIndex(join(Root, indexFile))
    /\ rpc' = "f_try" /\ rpc = "f_variants" =>
          variants' = getMibVariants(mibIndex', mibname)

C16_IndexLoadedOnce ==
    /\ [](~indexLoaded => mibIndex = {})
    /\ [][C16_Step]_vars

\* a later fetch resolving its variants while the file no longer parses to
\* the index the instance holds
C16_Witness ==
    /\ useIndexFile /\ indexLoaded
    /\ rpc = "f_try"
    /\ mibIndex # loadIndex(join(Root, indexFile))
    /\ variants = getMibVariants(mibIndex, mibname)
    /\ variants # getMibVariants(loadIndex(join(Root, indexFile)), mibname)

\* the first whitespace-delimited token of a line, and what follows it
RECURSIVE C17_Token(_)
C17_Token(s) ==
    IF s = <<>> \/ IsSpace(Head(s)) THEN <<>> ELSE <<Head(s)>> \o C17_Token(Tail(s))

C17_Key(line) == C17_Token(lstrip(line))

C17_Value(line) ==
    LET l == lstrip(line) IN strip(SubSeq(l, Len(C17_Key(line)) + 1, Len(l)))

RECURSIVE C17_Map(_, _)
C17_Map(lines, idx) ==
    IF lines = <<>> THEN idx
    ELSE C17_Map(Tail(lines), Put(idx, C17_Key(Head(lines)), C17_Value(Head(lines))))

\* C17: the index an instance has loaded maps, for every line of the index
\* file, the first whitespace-delimited token of the line to the trimmed
\* remainder of the line, whether the separator is a space, a tab or a run
\* of several; it is the empty map when the file is missing or unreadable.
C17_IndexParsing ==
    useIndexFile /\ indexLoaded =>
       mibIndex = (IF isfile(<<indexFile>>) /\ Node(<<indexFile>>).ok
                   THEN C17_Map(indexLines, {}) ELSE {})

(* Claims about the end of a fetch *)

\* C18: a fetch ends with PySmiReaderFileNotFoundError only when every
\* (search root, variant) pair has been examined and none names an existing
\* regular file, never while an untried pair remains; a fetch that found
\* its file ended on the pair it returns and examines no pair after it.
C18_AtEnd ==
    /\ rres = "PySmiReaderFileNotFoundError" =>
          /\ rpc = "f_done"
          /\ variants # <<>>
          /\ {tried[k] : k \in 1..Len(tried)} = Pairs
          /\ \A pr \in Pairs : ~isfile(Cand(pr[1], pr[2]))
    /\ rres = "found" =>
          /\ rpc = "f_done"
          /\ found.path = Cand(LastTried[1], LastTried[2])
          /\ \A k \in 1..(Len(tried) - 1) : tried[k] # LastTried

C18_NotFoundOnlyWhenExhausted ==
    /\ []C18_AtEnd
    /\ [][rres = "found" => tried' \in {tried, <<>>}]_vars

C18_Witness ==
    /\ rres = "PySmiReaderFileNotFoundError"
    /\ Len(roots) = 2 /\ Len(variants) = 2
    /\ Len(tried) = 4
    /\ exists(<<NameF>>)

\* C19: when the index is enabled and holds the requested name, the fetch
\* tries in each search root only the file name the index gives: when no
\* search root holds a regular file of that name the fetch ends with
\* PySmiReaderFileNotFoundError, even if a file named as a fallback variant
\* of the name exists in a search root.
C19_OnlyIndexedFile ==
    rpc = "f_done" /\ useIndexFile /\ indexLoaded /\ InIndex(mibIndex, mibname) =>
       /\ \A k \in 1..Len(tried) :
             Cand(tried[k][1], tried[k][2]) = join(roots[tried[k][1]], Lookup(mibIndex, mibname))
       /\ (\A i \in 1..Len(roots) : ~isfile(join(roots[i], Lookup(mibIndex, mibname))))
             => rres = "PySmiReaderFileNotFoundError" /\ Len(tried) = Len(roots)

C19_Witness ==
    /\ rpc = "f_done" /\ useIndexFile /\ InIndex(mibIndex, mibname)
    /\ rres = "PySmiReaderFileNotFoundError"
    /\ \E i \in 1..Len(roots), v \in 1..2 :
          Qualifies(join(roots[i], baseMibVariants(mibname)[v][2]))

(* Claims about the cleanup of concurrent store calls *)

\* the files a step of call w removes
C20_RemovedTemps == {n \in TmpNames : tmp[n].present /\ ~tmp'[n].present}

C20_CleanupStep ==
    \A w \in Writers :
       /\ pc[w] = "except" /\ pc'[w] # "except" =>
             \A n \in C20_RemovedTemps : n = tfile[w] /\ tmp[n].by = w
       /\ pc[w] = "unlink" /\ pc'[w] # "unlink" /\ pyfile.present /\ ~pyfile'.present =>
             pyfile = File(encode(Data(w)), w)

\* C20: the cleanup of a failing store call removes only what the call
\* itself wrote, its own temp file or the artifact holding its own content,
\* so that with validation enabled no call deletes the artifact another
\* call renamed into place; and once a call has returned success there is
\* an artifact at the final path.
C20_CleanupOwnFilesOnly ==
    /\ [][C20_CleanupStep]_vars
    /\ [](\A w \in Writers : Stored(w) /\ renamed[w] => pyfile.present)

====
